---------------------------- MODULE Spec2Model ----------------------------
(***************************************************************************)
(* Opmed: the CP-SAT scheduling model (ModelBuilder), the solver driver    *)
(* (Optimizer), the post-solve Validator and the pipeline of scripts/run.py *)
(* as one state machine.                                                   *)
(*                                                                         *)
(* Instants are integers: seconds since midnight (UTC) of the day the      *)
(* input starts on.  Durations of the configuration (time_unit, shift_min, *)
(* shift_max, shift_overtime, buffer) are kept in seconds as well, so that *)
(* "hours as a float" is the rational seconds / 3600.                      *)
(***************************************************************************)
EXTENDS Integers, Sequences, FiniteSets, TLC

VARIABLES
    cfg,          \* Config handed to every stage
    input_rows,   \* the data rows of the input CSV, in file order
    surgeries,    \* list[Surgery] returned by the loader (sorted by start_time)
    load_ok,      \* "config_error" when ConfigLoader rejects the YAML, "load_failed"
                  \* once SurgeriesLoader has reported success = False, else "ok"
    pc,           \* position of run_pipeline / main
    aux,          \* ModelBuilder.aux: tick coordinates of the built model
    sol,          \* values of the decision variables in the solver's solution
    res,          \* the SolveResult dictionary returned by Optimizer.solve
    valid,        \* run_pipeline's local `valid`
    report,       \* content of validation_report.json (NoReport when not written)
    solution_csv, \* solution.csv and its data rows (NoCsv when not written)
    files,        \* the other artifacts written so far: <<directory, name>>
    exc,          \* exception that escaped run_pipeline ("none" when none)
    exit_code,    \* value returned by main (NoExit while running)
    v_rows,       \* Validator harness: the assignments handed to validate_assignments
    v_out,        \* Validator harness: outcome of validate_assignments
    fs,           \* file system of the artifact writers: names and inodes
    runs,         \* artifact writers: the position of each concurrent run
    first_run     \* what an earlier run on the same inputs left (NoRun when none)

pipeline_vars == <<cfg, input_rows, surgeries, load_ok, pc, aux, sol, res, valid, report,
                   solution_csv, files, exc, exit_code, v_rows, v_out, first_run>>

vars == <<cfg, input_rows, surgeries, load_ok, pc, aux, sol, res, valid, report,
          solution_csv, files, exc, exit_code, v_rows, v_out, fs, runs, first_run>>

-----------------------------------------------------------------------------
(* Bounds of the model                                                     *)

MaxSurgeries == 2      \* at most this many surgeries in the input
MaxSlot == 3           \* instants are Grain * k for k in 0..MaxSlot
Grain == 1200          \* input granularity in seconds (20 minutes)
MaxRooms == 2          \* rooms_max ranges over 1..MaxRooms

(* Program constants                                                       *)

SecondsPerHour == 3600     \* "/ 3600" in _create_intervals
SecondsPerDay == 86400     \* replace(hour=0, minute=0, second=0, microsecond=0)

NoReport == [written |-> FALSE]     \* validation_report.json does not exist
NoCsv == [written |-> FALSE]        \* solution.csv does not exist
NoExit == "running"
None == "None"

-----------------------------------------------------------------------------
(* Arithmetic helpers                                                      *)

Max2(a, b) == IF a >= b THEN a ELSE b

SetMin(S) == CHOOSE m \in S : \A e \in S : m <= e
SetMax(S) == CHOOSE m \in S : \A e \in S : m >= e

RECURSIVE SumFn(_)
SumFn(f) ==
    IF DOMAIN f = {} THEN 0
    ELSE LET d == CHOOSE e \in DOMAIN f : TRUE
         IN f[d] + SumFn([e \in DOMAIN f \ {d} |-> f[e]])

\* Python 3 round(n / d) for n >= 0, d > 0: round half to even.
PyRound(n, d) ==
    LET q == n \div d
        r == n % d
    IN IF 2 * r < d THEN q
       ELSE IF 2 * r > d THEN q + 1
       ELSE IF q % 2 = 0 THEN q ELSE q + 1

\* The set of functions f on DOMAIN vals with f[d] \in vals[d] for every d.
RECURSIVE FnProduct(_)
FnProduct(vals) ==
    IF DOMAIN vals = {} THEN {<<>>}
    ELSE LET d == CHOOSE e \in DOMAIN vals : TRUE
             rest == [e \in DOMAIN vals \ {d} |-> vals[e]]
         IN {[e \in DOMAIN vals |-> IF e = d THEN v ELSE f[e]] :
                 v \in vals[d], f \in FnProduct(rest)}

-----------------------------------------------------------------------------
(* Inputs                                                                  *)

Times == {Grain * k : k \in 0..MaxSlot}

\* Config (schemas/models.py): every duration in seconds.
ConfigSet ==
    [time_unit : {3600},
     rooms_max : 1..MaxRooms,
     shift_min : {3600},
     shift_max : {3600, 7200},
     shift_overtime : {3600},
     overtime_num : {3}, overtime_den : {2},
     buffer : {3600},
     utilization_num : {4}, utilization_den : {5},
     enforce_surgery_duration_limit : {TRUE},
     activation_penalty : {0}]

DefaultConfig == CHOOSE c \in ConfigSet : c.rooms_max = 1 /\ c.shift_max = 7200

\* Surgery (schemas/models.py): surgery_id, start_time, end_time.
SurgerySet == {s \in [surgery_id : 1..MaxSurgeries, start_time : Times, end_time : Times] :
                   s.start_time < s.end_time}

\* What SurgeriesLoader returns with success = True: start < end on every row,
\* unique ids, sorted by start_time.  Ids are named by position.
LoadedLists ==
    UNION {{l \in [1..n -> SurgerySet] :
               /\ \A i \in 1..n : l[i].surgery_id = i
               /\ \A i \in 1..n - 1 : l[i].start_time <= l[i + 1].start_time} :
           n \in 0..MaxSurgeries}

\* The loaded lists whose surgeries end within the first two grains
EarlyLists ==
    {l \in LoadedLists : \A i \in 1..Len(l) : l[i].end_time <= 2 * Grain}

-----------------------------------------------------------------------------
(* ModelBuilder._create_intervals: the tick lattice                        *)

Midnight(t) == (t \div SecondsPerDay) * SecondsPerDay

TicksPerHour(c) == PyRound(SecondsPerHour, c.time_unit)

\* int(round((seconds / 3600) * ticks_per_hour))
ToTicks(c, t_origin, t) == PyRound((t - t_origin) * TicksPerHour(c), SecondsPerHour)

HoursToTicks(c, seconds) == PyRound(seconds * TicksPerHour(c), SecondsPerHour)

EmptyAux ==
    [has_ticks |-> FALSE, n |-> 0, t_origin |-> 0, ticks_per_hour |-> 0,
     start_ticks |-> <<>>, end_ticks |-> <<>>, max_time_ticks |-> 0, buffer_ticks |-> 0]

CreateIntervals(c, surg) ==
    IF Len(surg) = 0 THEN EmptyAux
    ELSE
      LET n == Len(surg)
          t_origin == Midnight(SetMin({surg[i].start_time : i \in 1..n}))
          st == [i \in 1..n |-> ToTicks(c, t_origin, surg[i].start_time)]
          en0 == [i \in 1..n |-> ToTicks(c, t_origin, surg[i].end_time)]
          \* a non-positive tick duration is forced to one tick
          en == [i \in 1..n |-> IF en0[i] - st[i] <= 0 THEN st[i] + 1 ELSE en0[i]]
      IN [has_ticks |-> TRUE, n |-> n, t_origin |-> t_origin,
          ticks_per_hour |-> TicksPerHour(c),
          start_ticks |-> st, end_ticks |-> en,
          max_time_ticks |-> SetMax({0} \cup {en[i] : i \in 1..n}),
          buffer_ticks |-> PyRound(c.buffer, c.time_unit)]

-----------------------------------------------------------------------------
(* ModelBuilder: decision grids and structural constraints                 *)

Surg(a) == 1..a.n
Slots(a) == 1..a.n                 \* max_anesth = len(surgeries)
Rooms(c) == 1..c.rooms_max

\* AddAtLeastOne in place of AddExactlyOne (a BoolOr over the row)
AddAtLeastOne(row) == Cardinality({k \in DOMAIN row : row[k] = 1}) >= 1

\* model.AddExactlyOne(literals) on one row of a grid
AddExactlyOne(row) == Cardinality({k \in DOMAIN row : row[k] = 1}) = 1

\* model.AddNoOverlap on the optional intervals that are present
AddNoOverlap(a, present) ==
    \A s1, s2 \in present :
        s1 # s2 => \/ a.end_ticks[s1] <= a.start_ticks[s2]
                   \/ a.end_ticks[s2] <= a.start_ticks[s1]

\* _add_assignment_cardinality: the rows of x and y allowed for one surgery
AssignmentRows(cols) == {row \in [cols -> {0, 1}] : AddExactlyOne(row)}

\* NoOverlap posted for the first room only
RoomNoOverlapFirstRoom(a, c, y) ==
    AddNoOverlap(a, {s \in Surg(a) : y[s][1] = 1})

\* _add_room_nooverlap: one NoOverlap per room over intervals gated by y[s,r]
RoomNoOverlap(a, c, y) ==
    \A r \in Rooms(c) : AddNoOverlap(a, {s \in Surg(a) : y[s][r] = 1})

\* NoOverlap posted for every slot but the last
AnesthNoOverlapButLast(a, x) ==
    \A k \in Slots(a) \ {a.n} : AddNoOverlap(a, {s \in Surg(a) : x[s][k] = 1})

\* _add_anesth_nooverlap: one NoOverlap per slot over intervals gated by x[s,a]
AnesthNoOverlap(a, x) ==
    \A k \in Slots(a) : AddNoOverlap(a, {s \in Surg(a) : x[s][k] = 1})

XGrids(a) == {x \in [Surg(a) -> AssignmentRows(Slots(a))] : AnesthNoOverlap(a, x)}
YGrids(a, c) == {y \in [Surg(a) -> AssignmentRows(Rooms(c))] : RoomNoOverlap(a, c, y)}

-----------------------------------------------------------------------------
(* ModelBuilder._add_buffer_constraints                                    *)

DangerousPairs(a) ==
    {p \in Surg(a) \X Surg(a) :
        /\ p[1] # p[2]
        /\ a.end_ticks[p[1]] <= a.start_ticks[p[2]]
        /\ a.start_ticks[p[2]] < a.end_ticks[p[1]] + a.buffer_ticks}

\* b_both_in_r: AddBoolAnd([y1, y2]).OnlyEnforceIf(b) and
\* AddBoolOr([y1.Not(), y2.Not()]).OnlyEnforceIf(b.Not())
BothInRoomVals(y, p, r) ==
    {b \in {0, 1} :
        /\ b = 1 => (y[p[1]][r] = 1 /\ y[p[2]][r] = 1)
        /\ b = 0 => (y[p[1]][r] = 0 \/ y[p[2]][r] = 0)}

\* b_same_room: AddBoolOr(both).OnlyEnforceIf(b) and
\* Add(sum(both) == 0).OnlyEnforceIf(b.Not())
SameRoomVals(c, y, p) ==
    {b \in {0, 1} :
        \E both \in FnProduct([r \in Rooms(c) |-> BothInRoomVals(y, p, r)]) :
            /\ b = 1 => \E r \in Rooms(c) : both[r] = 1
            /\ b = 0 => SumFn(both) = 0}

\* b_same_anesth_lit: AddBoolAnd([x1, x2]).OnlyEnforceIf(lit) and
\* AddImplication(lit, b_same_room)
SameAnesthVals(x, sameR, pa) ==
    {lit \in {0, 1} :
        /\ lit = 1 => (x[pa[1][1]][pa[2]] = 1 /\ x[pa[1][2]][pa[2]] = 1)
        /\ lit = 1 => sameR[pa[1]] = 1}

SameRoomFns(a, c, y) ==
    FnProduct([p \in DangerousPairs(a) |-> SameRoomVals(c, y, p)])

SameAnesthFns(a, x, sameR) ==
    FnProduct([pa \in DangerousPairs(a) \X Slots(a) |-> SameAnesthVals(x, sameR, pa)])

-----------------------------------------------------------------------------
(* ModelBuilder._add_shift_duration_bounds, one anesthesiologist slot k    *)

\* active with AddBoolOr(x_vars).OnlyEnforceIf(active) alone
ActiveValsOneWay(a, x, k) ==
    {ac \in {0, 1} : ac = 1 => \E s \in Surg(a) : x[s][k] = 1}

\* active: AddBoolOr(x_vars).OnlyEnforceIf(active); for each x:
\* Add(x == 0).OnlyEnforceIf(active.Not()) and AddImplication(x, active)
ActiveVals(a, x, k) ==
    {ac \in {0, 1} :
        /\ ac = 1 => \E s \in Surg(a) : x[s][k] = 1
        /\ \A s \in Surg(a) : (ac = 0 => x[s][k] = 0) /\ (x[s][k] = 1 => ac = 1)}

\* start_var of an unassigned surgery set to 0 in place of the horizon
StartProxyValsZero(a, x, k, s) ==
    {v \in 0..a.max_time_ticks :
        /\ x[s][k] = 1 => v = a.start_ticks[s]
        /\ x[s][k] = 0 => v = 0}

\* start_var / end_var of surgery s for slot k, domain [0, horizon]
StartProxyVals(a, x, k, s) ==
    {v \in 0..a.max_time_ticks :
        /\ x[s][k] = 1 => v = a.start_ticks[s]
        /\ x[s][k] = 0 => v = a.max_time_ticks}

EndProxyVals(a, x, k, s) ==
    {v \in 0..a.max_time_ticks :
        /\ x[s][k] = 1 => v = a.end_ticks[s]
        /\ x[s][k] = 0 => v = 0}

\* t_min_active = Min(start candidates), t_max_active = Max(end candidates)
TMinActiveVals(a, x, k) ==
    {v \in 0..a.max_time_ticks :
        \E st \in FnProduct([s \in Surg(a) |-> StartProxyVals(a, x, k, s)]) :
            v = SetMin({st[s] : s \in Surg(a)})}

TMaxActiveVals(a, x, k) ==
    {v \in 0..a.max_time_ticks :
        \E en \in FnProduct([s \in Surg(a) |-> EndProxyVals(a, x, k, s)]) :
            v = SetMax({en[s] : s \in Surg(a)})}

\* shift bound dropped: t_max - t_min is left free
SpanValsUnbounded(a, c, x, k, ac) ==
    {tt \in (0..a.max_time_ticks) \X (0..a.max_time_ticks) :
        /\ ac = 1 => /\ tt[1] \in TMinActiveVals(a, x, k)
                     /\ tt[2] \in TMaxActiveVals(a, x, k)
        /\ ac = 0 => (tt[1] = 0 /\ tt[2] = 0)}

\* t_min, t_max: equal to the proxies when active, 0 when inactive, and
\* Add(t_max - t_min <= shift_max).OnlyEnforceIf(active)
SpanVals(a, c, x, k, ac) ==
    {tt \in (0..a.max_time_ticks) \X (0..a.max_time_ticks) :
        /\ ac = 1 => /\ tt[1] \in TMinActiveVals(a, x, k)
                     /\ tt[2] \in TMaxActiveVals(a, x, k)
                     /\ tt[2] - tt[1] <= HoursToTicks(c, c.shift_max)
        /\ ac = 0 => (tt[1] = 0 /\ tt[2] = 0)}

-----------------------------------------------------------------------------
(* ModelBuilder._add_objective_piecewise_cost, one slot                    *)

\* cost2 without Add(cost2 == 0).OnlyEnforceIf(active.Not())
Cost2ValsAlways(a, c, ac, t_min, t_max) ==
    LET duration == t_max - t_min
    IN {2 * Max2(duration, HoursToTicks(c, c.shift_min))
          + Max2(duration - HoursToTicks(c, c.shift_overtime), 0)}

\* cost2 without the scaling by 2: base_part + overtime_part
Cost2ValsUnscaled(a, c, ac, t_min, t_max) ==
    LET duration == t_max - t_min
    IN {IF ac = 1
        THEN Max2(duration, HoursToTicks(c, c.shift_min))
               + Max2(duration - HoursToTicks(c, c.shift_overtime), 0)
        ELSE 0}

\* cost2 of a slot with the given active flag and span; the auxiliary
\* variables duration, base_part, ov_diff and overtime_part keep their domains.
Cost2Vals(a, c, ac, t_min, t_max) ==
    LET h == a.max_time_ticks
        shift_min == HoursToTicks(c, c.shift_min)
        shift_overtime == HoursToTicks(c, c.shift_overtime)
        duration == t_max - t_min
        base_part == Max2(duration, shift_min)
        ov_diff == duration - shift_overtime
        overtime_part == Max2(ov_diff, 0)
    IN {c2 \in 0..3 * h :
          /\ duration \in 0..h
          /\ base_part \in 0..h
          /\ ov_diff \in -h..h
          /\ overtime_part \in 0..h
          /\ ac = 1 => c2 = 2 * base_part + overtime_part
          /\ ac = 0 => c2 = 0}

ShortfallCoeff(c) == PyRound(c.activation_penalty * SecondsPerHour, c.time_unit)

\* penalty_term of a slot (shortfall below shift_min, weighted)
PenaltyVals(a, c, ac, t_min, t_max) ==
    LET h == a.max_time_ticks
        shift_min == HoursToTicks(c, c.shift_min)
        coeff == ShortfallCoeff(c)
        duration == t_max - t_min
        diff == shift_min - duration
        shortfall == Max2(diff, 0)
    IN {pt \in 0..shift_min * coeff :
          /\ duration \in 0..h
          /\ diff \in -h..h
          /\ shortfall \in 0..shift_min
          /\ ac = 1 => pt = shortfall * coeff
          /\ ac = 0 => pt = 0}

\* Every consistent valuation of the variables of slot k, given x.
SlotVals(a, c, x, k) ==
    UNION {UNION {{[active |-> ac, t_min |-> tt[1], t_max |-> tt[2],
                    cost2 |-> c2, penalty |-> pt] :
                       c2 \in Cost2Vals(a, c, ac, tt[1], tt[2]),
                       pt \in PenaltyVals(a, c, ac, tt[1], tt[2])} :
                  tt \in SpanVals(a, c, x, k, ac)} :
           ac \in ActiveVals(a, x, k)}

SlotFns(a, c, x) == FnProduct([k \in Slots(a) |-> SlotVals(a, c, x, k)])

\* room_used[r], created only when activation_penalty > 0
RoomUsed(a, y, r) == IF \E s \in Surg(a) : y[s][r] = 1 THEN 1 ELSE 0

-----------------------------------------------------------------------------
(* The built model: its satisfying assignments and its objective           *)

\* the room grids with the sameR literals they admit
RoomSide(a, c) ==
    UNION {{[y |-> y, sameR |-> sr] : sr \in SameRoomFns(a, c, y)} : y \in YGrids(a, c)}

\* the anesthesiologist grids with the slot variables they admit
SlotSide(a, c) ==
    UNION {{[x |-> x, slot |-> sl] : sl \in SlotFns(a, c, x)} : x \in XGrids(a)}

Solutions(a, c) ==
    UNION {{[x |-> p[1].x, y |-> p[2].y, sameR |-> p[2].sameR, sameA |-> sa,
             slot |-> p[1].slot] : sa \in SameAnesthFns(a, p[1].x, p[2].sameR)} :
           p \in SlotSide(a, c) \X RoomSide(a, c)}

Objective(a, c, s) ==
    SumFn([k \in Slots(a) |-> s.slot[k].cost2])
    + SumFn([k \in Slots(a) |-> s.slot[k].penalty])
    + (IF c.activation_penalty = 0 THEN 0
       ELSE c.activation_penalty
            * (SumFn([k \in Slots(a) |-> s.slot[k].active])
               + SumFn([r \in Rooms(c) |-> RoomUsed(a, s.y, r)])))

-----------------------------------------------------------------------------
(* Validator (validator/validator.py).  A SolutionRow is a record           *)
(* [surgery_id, start_time, end_time, anesthetist_id, room_id].             *)

Range(seq) == {seq[i] : i \in 1..Len(seq)}

\* sorted(rows, key=start_time): stable insertion sort
RECURSIVE SortedByStart(_)
SortedByStart(rows) ==
    IF Len(rows) <= 1 THEN rows
    ELSE LET front == SortedByStart(SubSeq(rows, 1, Len(rows) - 1))
             last == rows[Len(rows)]
             keep == Cardinality({i \in 1..Len(front) : front[i].start_time <= last.start_time})
         IN SubSeq(front, 1, keep) \o <<last>> \o SubSeq(front, keep + 1, Len(front))

ByAnesthetist(rows, k) == SelectSeq(rows, LAMBDA r : r.anesthetist_id = k)
ByRoom(rows, k) == SelectSeq(rows, LAMBDA r : r.room_id = k)

\* Validator._check_data_integrity: the value stored in checks["DataIntegrity"]
DataIntegrityOk(rows, surg) ==
    LET input_ids == {surg[i].surgery_id : i \in 1..Len(surg)}
        assigned_ids == {rows[i].surgery_id : i \in 1..Len(rows)}
    IN /\ \A i, j \in 1..Len(rows) : i # j => rows[i].surgery_id # rows[j].surgery_id
       /\ input_ids \ assigned_ids = {}
       /\ assigned_ids \ input_ids = {}
       /\ \A i \in 1..Len(rows) : \A j \in 1..Len(surg) :
              rows[i].surgery_id = surg[j].surgery_id =>
                  /\ rows[i].start_time = surg[j].start_time
                  /\ rows[i].end_time = surg[j].end_time

\* step (7) with only its first test, len(self.assignments) == 0
DataIntegrityRaisesWhenEmpty(rows, surg) == Len(rows) = 0

\* Validator._check_data_integrity, step (7): the ValidationError
DataIntegrityRaises(rows, surg) ==
    LET input_ids == {surg[i].surgery_id : i \in 1..Len(surg)}
        assigned_ids == {rows[i].surgery_id : i \in 1..Len(rows)}
    IN Len(rows) = 0 \/ assigned_ids = {} \/ assigned_ids \cap input_ids = {}

\* Validator._check_no_overlap
NoOverlapOk(rows) ==
    \A k \in {r.anesthetist_id : r \in Range(rows)} :
        LET rows_sorted == SortedByStart(ByAnesthetist(rows, k))
        IN \A i \in 1..Len(rows_sorted) - 1 :
               ~(rows_sorted[i + 1].start_time < rows_sorted[i].end_time)

\* Validator._check_room_overlaps
RoomOverlapOk(rows) ==
    \A k \in {r.room_id : r \in Range(rows)} :
        LET intervals == SortedByStart(ByRoom(rows, k))
        IN \A i \in 1..Len(intervals) - 1 :
               ~(intervals[i + 1].start_time < intervals[i].end_time)

\* Validator._check_buffer_between_rooms
BufferOk(rows, c) ==
    \A k \in {r.anesthetist_id : r \in Range(rows)} :
        LET rows_sorted == SortedByStart(ByAnesthetist(rows, k))
        IN \A i \in 1..Len(rows_sorted) - 1 :
               rows_sorted[i].room_id # rows_sorted[i + 1].room_id =>
                   ~(rows_sorted[i + 1].start_time - rows_sorted[i].end_time < c.buffer)

ShiftSeconds(rows, k) ==
    LET mine == ByAnesthetist(rows, k)
    IN SetMax({r.end_time : r \in Range(mine)}) - SetMin({r.start_time : r \in Range(mine)})

\* Validator._check_shift_limits (a shift below shift_min is a warning only)
ShiftLimitsOk(rows, c) ==
    \A k \in {r.anesthetist_id : r \in Range(rows)} : ~(ShiftSeconds(rows, k) > c.shift_max)

\* _check_surgery_duration_limit without its early return for a disabled flag
DurationLimitsOkAlways(surg, c) ==
    \A i \in 1..Len(surg) : ~(surg[i].end_time - surg[i].start_time > c.shift_max)

\* Validator._check_surgery_duration_limit: the value stored in
\* checks["DurationLimits"]
DurationLimitsOk(surg, c) ==
    IF ~c.enforce_surgery_duration_limit THEN TRUE
    ELSE \A i \in 1..Len(surg) : ~(surg[i].end_time - surg[i].start_time > c.shift_max)

\* Validator._check_surgery_duration_limit called on a fresh Validator: the
\* checks entry it stores and the errors it appends, one per long surgery
CheckSurgeryDurationLimit(surg, c) ==
    LET long == SelectSeq(surg, LAMBDA s : s.end_time - s.start_time > c.shift_max)
    IN [checks |-> [n \in {"DurationLimits"} |-> DurationLimitsOk(surg, c)],
        errors |-> IF ~c.enforce_surgery_duration_limit THEN <<>>
                   ELSE [i \in 1..Len(long) |->
                            [check |-> "DurationLimits", surgery_id |-> long[i].surgery_id]]]

\* Validator._compute_metrics_and_utilization: total_cost * overtime_den, in seconds
TotalCostScaled(rows, c) ==
    SumFn([k \in {r.anesthetist_id : r \in Range(rows)} |->
              LET shift == Max2(ShiftSeconds(rows, k), 0)
                  base == Max2(c.shift_min, shift)
                  overtime == Max2(0, shift - c.shift_overtime)
              IN base * c.overtime_den + (c.overtime_num - c.overtime_den) * overtime])

TotalSurgerySeconds(surg) ==
    SumFn([i \in 1..Len(surg) |-> Max2(surg[i].end_time - surg[i].start_time, 0)])

\* utilization_target > 0 and utilization < utilization_target
UtilizationOk(rows, surg, c) ==
    LET cost == TotalCostScaled(rows, c)
        below == IF cost > 0
                 THEN TotalSurgerySeconds(surg) * c.overtime_den * c.utilization_den
                          < c.utilization_num * cost
                 ELSE 0 < c.utilization_num
    IN ~(c.utilization_num > 0 /\ below)

CheckNames ==
    {"DataIntegrity", "RoomOverlap", "NoOverlap", "Buffer", "ShiftLimits",
     "DurationLimits", "Utilization"}

\* Validator.run_all_checks: the checks dictionary
RunAllChecks(rows, surg, c) ==
    IF ~DataIntegrityOk(rows, surg)
    THEN [n \in CheckNames |-> FALSE]
    ELSE [n \in CheckNames |->
             CASE n = "DataIntegrity" -> TRUE
               [] n = "RoomOverlap" -> RoomOverlapOk(rows)
               [] n = "NoOverlap" -> NoOverlapOk(rows)
               [] n = "Buffer" -> BufferOk(rows, c)
               [] n = "ShiftLimits" -> ShiftLimitsOk(rows, c)
               [] n = "DurationLimits" -> DurationLimitsOk(surg, c)
               [] n = "Utilization" -> UtilizationOk(rows, surg, c)]

\* The checks named by the entries of Validator.errors (_add_error calls).
\* When DataIntegrity fails the logical checks do not run and add nothing.
ErrorChecks(rows, surg, c) ==
    IF ~DataIntegrityOk(rows, surg) THEN {"DataIntegrity"}
    ELSE {n \in CheckNames \ {"Utilization"} : ~RunAllChecks(rows, surg, c)[n]}

\* the commented-out `mandatory` list of build_report
MandatoryChecks ==
    {"NoOverlap", "RoomOverlap", "Buffer", "ShiftLimits", "DurationLimits", "DataIntegrity"}

\* critical_checks of Validator.build_report
CriticalChecks == {"DataIntegrity", "RoomOverlap", "NoOverlap", "DurationLimits"}

ChecksGet(checks, n) == IF n \in DOMAIN checks THEN checks[n] ELSE TRUE

\* Validator.build_report
BuildReport(checks, errors) ==
    LET critical_ok == \A n \in CriticalChecks : ChecksGet(checks, n)
        has_fatal_error == \E e \in errors : e \in CriticalChecks
    IN [valid |-> critical_ok /\ ~has_fatal_error, checks |-> checks, errors |-> errors]

-----------------------------------------------------------------------------
(* Values of res["assignments"]: the key is absent (res.get gives None), or *)
(* it holds the {"x": [...], "y": [...]} dictionary, or a list of rows.     *)

NoAssignments == [kind |-> "none"]
DictAssignments(x, y) == [kind |-> "dict", x |-> x, y |-> y]
ListAssignments(rows) == [kind |-> "list", rows |-> rows]

\* Python truthiness: None and [] are falsy, a dictionary with keys is truthy
Truthy(av) ==
    CASE av.kind = "none" -> FALSE
      [] av.kind = "dict" -> TRUE
      [] av.kind = "list" -> Len(av.rows) > 0

NoRaise == "none"

\* opmed/errors.py: the subclasses of OpmedError
OpmedErrors ==
    {"ConfigError", "DataError", "ModelError", "SolveError", "ValidationError",
     "VisualizationError"}

\* validate_assignments(assignments, surgeries, cfg, write_report=True):
\* the exception it raises, or the report it builds and saves
ValidateAssignments(av, surg, c) ==
    CASE av.kind = "none" -> [exc |-> "TypeError", report |-> NoReport]
      [] av.kind = "dict" -> [exc |-> "AttributeError", report |-> NoReport]
      [] av.kind = "list" ->
            IF DataIntegrityRaises(av.rows, surg)
            THEN [exc |-> "ValidationError", report |-> NoReport]
            ELSE [exc |-> NoRaise,
                  report |-> BuildReport(RunAllChecks(av.rows, surg, c),
                                         ErrorChecks(av.rows, surg, c))]

-----------------------------------------------------------------------------
(* Optimizer.solve                                                         *)

OkStatuses == {"OPTIMAL", "FEASIBLE"}

NoSolution == [found |-> FALSE]

\* Optimizer._extract_assignments: the (s, a) and (s, r) pairs with value 1
ExtractAssignments(a, c, s) ==
    [x |-> {p \in Surg(a) \X Slots(a) : s.x[p[1]][p[2]] = 1},
     y |-> {p \in Surg(a) \X Rooms(c) : s.y[p[1]][p[2]] = 1}]

\* The SolveResult dictionary: keys assignment, status, objective (runtime
\* is a wall-clock reading and carries no state).  There is no "assignments" key.
SolveResult(status, objective, assignment) ==
    [status |-> status, objective |-> objective, assignment |-> assignment,
     assignments |-> NoAssignments]

\* res before Optimizer.solve has returned
NoResult == SolveResult("", None, [x |-> {}, y |-> {}])

\* What solver.Solve may answer on the built model, with the solution it holds
SolveOutcomes(a, c) ==
    LET sols == Solutions(a, c)
        \* the minimum of the objective over the satisfying assignments
        least == SetMin({Objective(a, c, s) : s \in sols})
        best == {s \in sols : Objective(a, c, s) = least}
    IN {[status |-> "OPTIMAL", s |-> s] : s \in best}
       \cup {[status |-> "FEASIBLE", s |-> s] : s \in sols}
       \cup (IF sols = {} THEN {[status |-> "INFEASIBLE", s |-> NoSolution]} ELSE {})
       \cup {[status |-> "UNKNOWN", s |-> NoSolution]}

-----------------------------------------------------------------------------
(* SurgeriesLoader (dataloader/surgeries_loader.py).  A CSV data row is a   *)
(* record [surgery_id, start_time, end_time] of raw cells: the id cell is   *)
(* EmptyId when blank, an instant cell is Iso(t) when datetime.fromisoformat *)
(* parses it to t and NotIso when it raises.                                *)

EmptyId == 0     \* row.get("surgery_id") or ""

Iso(t) == [parsed |-> TRUE, t |-> t]
NotIso == [parsed |-> FALSE]

NoIssue == "none"

\* steps (3)-(6) of the loop body: the kind of issue recorded for one row
RowIssue(row, seen_ids) ==
    IF row.surgery_id = EmptyId THEN "missing_id"
    ELSE IF ~(row.start_time.parsed /\ row.end_time.parsed) THEN "invalid_datetime"
    ELSE IF ~(row.start_time.t < row.end_time.t) THEN "non_positive_duration"
    ELSE IF row.surgery_id \in seen_ids THEN "duplicate_id"
    ELSE NoIssue

\* the accumulators issues, surgeries, seen_ids after the loop over rows
RECURSIVE ScanRows(_)
ScanRows(rows) ==
    IF Len(rows) = 0 THEN [issues |-> <<>>, surgeries |-> <<>>, seen_ids |-> {}]
    ELSE LET acc == ScanRows(SubSeq(rows, 1, Len(rows) - 1))
             row == rows[Len(rows)]
             kind == RowIssue(row, acc.seen_ids)
         IN IF kind # NoIssue
            THEN [acc EXCEPT !.issues = Append(@, [kind |-> kind, line_no |-> Len(rows) + 1,
                                                   surgery_id |-> row.surgery_id])]
            ELSE [acc EXCEPT !.surgeries = Append(@, [surgery_id |-> row.surgery_id,
                                                      start_time |-> row.start_time.t,
                                                      end_time |-> row.end_time.t]),
                             !.seen_ids = @ \cup {row.surgery_id}]

\* the rows without an issue are kept and the load succeeds when any is kept
RowsToResultKeepValid(rows) ==
    LET acc == ScanRows(rows)
    IN [success |-> acc.issues = <<>> \/ acc.surgeries # <<>>,
        surgeries |-> SortedByStart(acc.surgeries),
        errors |-> acc.issues, total_rows |-> Len(rows), kept_rows |-> Len(acc.surgeries)]

\* SurgeriesLoader._rows_to_result: the LoadResult
RowsToResult(rows) ==
    LET acc == ScanRows(rows)
    IN IF acc.issues # <<>>
       THEN [success |-> FALSE, surgeries |-> <<>>, errors |-> acc.issues,
             total_rows |-> Len(rows), kept_rows |-> 0]
       ELSE [success |-> TRUE, surgeries |-> SortedByStart(acc.surgeries), errors |-> <<>>,
             total_rows |-> Len(rows), kept_rows |-> Len(acc.surgeries)]

\* The CSV row that loads as surgery s
RawRow(s) ==
    [surgery_id |-> s.surgery_id, start_time |-> Iso(s.start_time), end_time |-> Iso(s.end_time)]

Reverse(seq) == [i \in 1..Len(seq) |-> seq[Len(seq) + 1 - i]]

\* A row spoilt in one cell: blank id, unparsable start, end = start,
\* start and end exchanged, or the id of another row of the file
BadRows(row, other_ids) ==
    {[row EXCEPT !.surgery_id = EmptyId],
     [row EXCEPT !.start_time = NotIso],
     [row EXCEPT !.end_time = row.start_time],
     [row EXCEPT !.start_time = row.end_time, !.end_time = row.start_time]}
    \cup {[row EXCEPT !.surgery_id = id] : id \in other_ids}

\* Files whose rows all load: in ascending start order, and for the early
\* lists in descending order as well
GoodRowLists ==
    {[i \in 1..Len(l) |-> RawRow(l[i])] : l \in LoadedLists}
    \cup {Reverse([i \in 1..Len(l) |-> RawRow(l[i])]) : l \in EarlyLists}

\* Files with exactly one spoilt row among rows that load
BadRowLists ==
    UNION {UNION {{[rows EXCEPT ![i] = b] :
                      b \in BadRows(rows[i], {rows[j].surgery_id : j \in 1..Len(rows)}
                                                \ {rows[i].surgery_id})} :
                  i \in 1..Len(rows)} :
           rows \in GoodRowLists}

InputRowLists == GoodRowLists \cup BadRowLists

-----------------------------------------------------------------------------
(* scripts/run.py: run_pipeline and main                                   *)

IdleHarness ==
    /\ v_rows = NoAssignments
    /\ v_out = [exc |-> "idle", report |-> NoReport]

\* No file operation of the artifact writers is in progress
EmptyFs == [names |-> <<>>, inodes |-> <<>>]

IdleWriters ==
    /\ fs = EmptyFs
    /\ runs = <<>>

\* No earlier run on the same inputs
NoRun == [ran |-> FALSE]

\* The state at entry of main: nothing loaded, nothing written.
Init ==
    /\ load_ok \in {"ok", "config_error"}
    /\ cfg \in (IF load_ok = "config_error" THEN {DefaultConfig} ELSE ConfigSet)
    /\ input_rows \in (IF load_ok = "config_error" THEN {<<>>} ELSE InputRowLists)
    /\ surgeries = <<>>
    /\ pc = "load"
    /\ aux = EmptyAux
    /\ sol = NoSolution
    /\ res = NoResult
    /\ valid = FALSE
    /\ report = NoReport
    /\ solution_csv = NoCsv
    /\ files = {}
    /\ exc = NoRaise
    /\ exit_code = NoExit
    /\ IdleHarness
    /\ IdleWriters
    /\ first_run = NoRun

Raise(e) ==
    /\ exc' = e
    /\ pc' = "raised"

\* run_pipeline steps (1)-(3): ConfigLoader.load, SurgeriesLoader.load,
\* LoadResultHandler.handle (load_errors.json), and the DataError when it
\* returns None
Load ==
    /\ pc = "load"
    /\ IF load_ok = "config_error"
       THEN Raise("ConfigError") /\ UNCHANGED <<surgeries, load_ok, files>>
       ELSE LET result == RowsToResult(input_rows)
            IN /\ surgeries' = result.surgeries
               /\ IF ~result.success
                  THEN /\ load_ok' = "load_failed"
                       /\ files' = files \cup {<<"output_dir", "load_errors.json">>}
                       /\ Raise("DataError")
                  ELSE pc' = "build" /\ UNCHANGED <<load_ok, exc, files>>
    /\ UNCHANGED <<fs, runs, first_run, cfg, input_rows, aux, sol, res, valid, report, solution_csv,
                   exit_code, v_rows, v_out>>

\* ModelBuilder(cfg, surgeries).build(): with no surgeries _create_intervals
\* returns before filling aux and _add_buffer_constraints reads aux["buffer_ticks"]
Build ==
    /\ pc = "build"
    /\ IF Len(surgeries) = 0
       THEN Raise("KeyError") /\ UNCHANGED aux
       ELSE aux' = CreateIntervals(cfg, surgeries) /\ pc' = "solve" /\ UNCHANGED exc
    /\ UNCHANGED <<fs, runs, first_run, cfg, input_rows, surgeries, load_ok, sol, res, valid, report, solution_csv, files,
                   exit_code, v_rows, v_out>>

\* the result with decision values read under OPTIMAL alone
OptimizerResultOptimalOnly(a, c, o) ==
    IF o.status = "OPTIMAL"
    THEN SolveResult(o.status, Objective(a, c, o.s), ExtractAssignments(a, c, o.s))
    ELSE SolveResult(o.status, None, [x |-> {}, y |-> {}])

\* Optimizer.solve after its one call of solver.Solve: decision values and
\* the objective are read only under OPTIMAL or FEASIBLE
OptimizerResult(a, c, o) ==
    IF o.status \in OkStatuses
    THEN SolveResult(o.status, Objective(a, c, o.s), ExtractAssignments(a, c, o.s))
    ELSE SolveResult(o.status, None, [x |-> {}, y |-> {}])

\* Optimizer(cfg).solve(bundle), with its own solver.log and metrics.json.
\* The solver is given num_workers and random_seed: on the model it has
\* solved before it repeats its search and its answer.
Solve ==
    /\ pc = "solve"
    /\ \E o \in SolveOutcomes(aux, cfg) :
          /\ first_run # NoRun => o = first_run.outcome
          /\ sol' = o.s
          /\ res' = OptimizerResult(aux, cfg, o)
    /\ files' = files \cup {<<"cfg.output_dir", "solver.log">>, <<"cfg.output_dir", "metrics.json">>}
    /\ pc' = "validate"
    /\ UNCHANGED <<fs, runs, first_run, cfg, input_rows, surgeries, load_ok, aux, valid, report, solution_csv, exc,
                   exit_code, v_rows, v_out>>

\* the report written without its SolverStatus error entry
SolverStatusReportNoEntry ==
    [valid |-> FALSE, checks |-> [n \in {"SolverStatus"} |-> FALSE], errors |-> {}]

SolverStatusReport ==
    [valid |-> FALSE, checks |-> [n \in {"SolverStatus"} |-> FALSE], errors |-> {"SolverStatus"}]

\* run_pipeline step (5)
Validate ==
    /\ pc = "validate"
    /\ IF res.status \notin OkStatuses
       THEN /\ report' = SolverStatusReport
            /\ valid' = FALSE
            /\ pc' = "rename"
            /\ UNCHANGED exc
       ELSE LET v == ValidateAssignments(res.assignments, surgeries, cfg)
            IN IF v.exc # NoRaise
               THEN Raise(v.exc) /\ UNCHANGED <<report, valid>>
               ELSE /\ report' = v.report
                    /\ valid' = v.report.valid
                    /\ pc' = "rename"
                    /\ UNCHANGED exc
    /\ UNCHANGED <<fs, runs, first_run, cfg, input_rows, surgeries, load_ok, aux, sol, res, solution_csv, files,
                   exit_code, v_rows, v_out>>

\* digits of k in base ten, most significant first
RECURSIVE Digits(_)
Digits(k) == IF k < 10 THEN <<k>> ELSE Digits(k \div 10) \o <<k % 10>>

\* f"A{k:03d}": at least three digits, zero-padded on the left
FormatLabel(k) ==
    [prefix |-> "A", digits |-> [i \in 1..(3 - Len(Digits(k))) |-> 0] \o Digits(k)]

\* old_ids_in_order: the distinct anesthetist_id values by first occurrence
RECURSIVE OldIdsInOrder(_)
OldIdsInOrder(rows) ==
    IF Len(rows) = 0 THEN <<>>
    ELSE LET front == OldIdsInOrder(SubSeq(rows, 1, Len(rows) - 1))
             old_id == rows[Len(rows)].anesthetist_id
         IN IF old_id \in Range(front) THEN front ELSE Append(front, old_id)

\* id_mapping[old_id]
IdMapping(order, old_id) == FormatLabel(CHOOSE i \in 1..Len(order) : order[i] = old_id)

\* _rename_anesthetists(assignments): rows of row_type "SolutionRow" have the
\* attributes the function reads, rows of row_type "dict" do not.  `rows` is
\* the list it returns, `argument` the caller's list after the call (its
\* rows are relabelled in place, its order is untouched).
RenameAnesthetists(args) ==
    IF Len(args.rows) = 0 THEN [exc |-> NoRaise, rows |-> <<>>, argument |-> <<>>]
    ELSE IF args.row_type = "dict"
    THEN [exc |-> "AttributeError", rows |-> <<>>, argument |-> args.rows]
    ELSE LET sorted_assignments == SortedByStart(args.rows)
             order == OldIdsInOrder(sorted_assignments)
             renamed(row) == [row EXCEPT !.anesthetist_id = IdMapping(order, @)]
         IN [exc |-> NoRaise,
             rows |-> [i \in 1..Len(args.rows) |-> renamed(sorted_assignments[i])],
             argument |-> [i \in 1..Len(args.rows) |-> renamed(args.rows[i])]]

\* run_pipeline step (6): _rename_anesthetists reads row.start_time, and the
\* rows handed to it are dictionaries (or the keys of the x/y dictionary)
Rename ==
    /\ pc = "rename"
    /\ IF Truthy(res.assignments)
       THEN Raise("AttributeError")
       ELSE pc' = "plot" /\ UNCHANGED exc
    /\ UNCHANGED <<fs, runs, first_run, cfg, input_rows, surgeries, load_ok, aux, sol, res, valid, report, solution_csv,
                   files, exit_code, v_rows, v_out>>

\* run_pipeline step (7)
Plot ==
    /\ pc = "plot"
    /\ files' = IF valid THEN files \cup {<<"output_dir", "solution_plot.png">>} ELSE files
    /\ pc' = "metrics"
    /\ UNCHANGED <<fs, runs, first_run, cfg, input_rows, surgeries, load_ok, aux, sol, res, valid, report, solution_csv,
                   exc, exit_code, v_rows, v_out>>

\* A datetime value of an export row: local wall-clock seconds and tzinfo
Aware(utcoffset) == [aware |-> TRUE, utcoffset |-> utcoffset]
Naive == [aware |-> FALSE]
DateTime(local, tzinfo) == [local |-> local, tzinfo |-> tzinfo]

\* _parse_iso_tz_aware(...).isoformat(): the instant in UTC, "+00:00"
ParseIsoTzAware(value) == DateTime(value.local - value.tzinfo.utcoffset, Aware(0))

\* write_solution_csv steps (1)-(4): the DataError, or the normalized rows
NormalizedRecords(assignments) ==
    LET duplicate == \E i, k \in 1..Len(assignments) :
                         i < k /\ assignments[i].surgery_id = assignments[k].surgery_id
        naive == \E i \in 1..Len(assignments) :
                     ~assignments[i].start_time.tzinfo.aware
                         \/ ~assignments[i].end_time.tzinfo.aware
    IN IF duplicate \/ naive THEN [exc |-> "DataError", rows |-> <<>>]
       ELSE [exc |-> NoRaise,
             rows |-> [i \in 1..Len(assignments) |->
                          [assignments[i] EXCEPT
                              !.start_time = ParseIsoTzAware(@),
                              !.end_time = ParseIsoTzAware(@)]]]

\* write_solution_csv with the sort of step (5) on start_time in force
WriteSolutionCsvRowsSorted(assignments) ==
    LET normalized == NormalizedRecords(assignments)
        keyed == [i \in 1..Len(normalized.rows) |->
                     [start_time |-> normalized.rows[i].start_time.local,
                      row |-> normalized.rows[i]]]
        sorted == SortedByStart(keyed)
    IN IF normalized.exc # NoRaise THEN [exc |-> normalized.exc, csv |-> NoCsv]
       ELSE [exc |-> NoRaise,
             csv |-> [written |-> TRUE,
                      rows |-> [i \in 1..Len(sorted) |-> sorted[i].row]]]

\* write_solution_csv(assignments, out_path): the exception, or the data rows
\* of the file that replaces out_path (step (5), the sort, is commented out)
WriteSolutionCsvRows(assignments) ==
    LET normalized == NormalizedRecords(assignments)
    IN IF normalized.exc # NoRaise THEN [exc |-> normalized.exc, csv |-> NoCsv]
       ELSE [exc |-> NoRaise, csv |-> [written |-> TRUE, rows |-> normalized.rows]]

\* metrics._require_result_schema: the legacy key is copied under "assignments"
RequireResultSchema(r) ==
    IF r.assignments.kind = "none"
    THEN [r EXCEPT !.assignments = DictAssignments(r.assignment.x, r.assignment.y)]
    ELSE r

\* run_pipeline steps (8)-(10): collect_metrics, write_metrics, write_solver_log,
\* write_solution_csv and the return.  collect_metrics needs a schedule
\* (solution_path, assignments_df or solution_rows) unless assignments is falsy.
CollectAndExport ==
    /\ pc = "metrics"
    /\ res' = RequireResultSchema(res)
    /\ IF Truthy(res'.assignments)
       THEN Raise("DataError") /\ UNCHANGED <<files, solution_csv>>
       ELSE /\ files' = files \cup {<<"output_dir", "metrics.json">>, <<"output_dir", "solver.log">>}
            /\ solution_csv' = WriteSolutionCsvRows(<<>>).csv
            /\ pc' = "returned"
            /\ UNCHANGED exc
    /\ UNCHANGED <<fs, runs, first_run, cfg, input_rows, surgeries, load_ok, aux, sol, valid, report, exit_code,
                   v_rows, v_out>>

\* `except Exception` placed first: every exception is an unexpected crash
ExitCodeCatchAll(returned, is_valid, e) ==
    IF returned THEN (IF is_valid THEN 0 ELSE 1)
    ELSE 2

\* main: the exit code for run_pipeline's outcome
ExitCode(returned, is_valid, e) ==
    IF returned THEN (IF is_valid THEN 0 ELSE 1)
    ELSE IF e \in OpmedErrors THEN 1
    ELSE 2

Main ==
    /\ pc \in {"returned", "raised"}
    /\ exit_code' = ExitCode(pc = "returned", valid, exc)
    /\ pc' = "exited"
    /\ UNCHANGED <<fs, runs, first_run, cfg, input_rows, surgeries, load_ok, aux, sol, res, valid, report, solution_csv,
                   files, exc, v_rows, v_out>>

Next == Load \/ Build \/ Solve \/ Validate \/ Rename \/ Plot \/ CollectAndExport \/ Main

Spec == Init /\ [][Next]_vars

\* run_pipeline up to the return of Optimizer.solve: load, build, solve
NextSolve == Load \/ Build \/ Solve

SolveSpec == Init /\ [][NextSolve]_vars

\* main is started again with the same --config, --input and --output: the
\* files of the first run are still in the output directory
Rerun ==
    /\ pc = "exited"
    /\ first_run = NoRun
    /\ first_run' = [ran |-> TRUE, outcome |-> [status |-> res.status, s |-> sol],
                     solution_csv |-> solution_csv, res |-> res, exit_code |-> exit_code]
    /\ load_ok' = IF load_ok = "config_error" THEN "config_error" ELSE "ok"
    /\ pc' = "load"
    /\ surgeries' = <<>>
    /\ aux' = EmptyAux
    /\ sol' = NoSolution
    /\ res' = NoResult
    /\ valid' = FALSE
    /\ exc' = NoRaise
    /\ exit_code' = NoExit
    /\ UNCHANGED <<fs, runs, cfg, input_rows, report, solution_csv, files, v_rows, v_out>>

NextTwice == Next \/ Rerun

TwiceSpec == Init /\ [][NextTwice]_vars

-----------------------------------------------------------------------------
(* ModelBuilder and Optimizer on their own: build and solve for loaded      *)
(* surgeries under configurations Config admits (every field is bounded    *)
(* on its own: shift_min > 0, shift_overtime >= 0, overtime_multiplier >= 1) *)

\* time_unit of 20 minutes: every instant of Times is a whole tick
ModelConfigSet ==
    [time_unit : {Grain},
     rooms_max : 1..MaxRooms,
     shift_min : {Grain, 3 * Grain},
     shift_max : {3 * Grain},
     shift_overtime : {2 * Grain, 6 * Grain},
     overtime_num : {3, 4}, overtime_den : {2},
     buffer : {Grain},
     utilization_num : {4}, utilization_den : {5},
     enforce_surgery_duration_limit : {TRUE},
     activation_penalty : {0}]

\* run_pipeline at step (3), the surgeries loaded
InitModel ==
    /\ load_ok = "ok"
    /\ cfg \in ModelConfigSet
    /\ surgeries \in LoadedLists
    /\ input_rows = [i \in 1..Len(surgeries) |-> RawRow(surgeries[i])]
    /\ pc = "build"
    /\ aux = EmptyAux
    /\ sol = NoSolution
    /\ res = NoResult
    /\ valid = FALSE
    /\ report = NoReport
    /\ solution_csv = NoCsv
    /\ files = {}
    /\ exc = NoRaise
    /\ exit_code = NoExit
    /\ IdleHarness
    /\ IdleWriters
    /\ first_run = NoRun

NextModel == Build \/ Solve

ModelSpec == InitModel /\ [][NextModel]_vars

-----------------------------------------------------------------------------
(* Function-level harness: validate_assignments applied to drawn rows, and  *)
(* main applied to drawn outcomes of run_pipeline                          *)

\* Configurations the Validator reads: shift limits, target, duration flag
ValidatorConfigSet ==
    [time_unit : {3600},
     rooms_max : {1},
     shift_min : {3600},
     shift_max : {1200, 7200},
     shift_overtime : {3600},
     overtime_num : {3}, overtime_den : {2},
     buffer : {1200},
     utilization_num : {0, 4}, utilization_den : {5},
     enforce_surgery_duration_limit : BOOLEAN,
     activation_penalty : {0}]

\* Inputs of the harness
HarnessLists == EarlyLists

AnesthetistIds == {"A1", "A2"}
RoomIds == {"R1", "R2"}

SolutionRow(id, start_time, end_time, anesthetist_id, room_id) ==
    [surgery_id |-> id, start_time |-> start_time, end_time |-> end_time,
     anesthetist_id |-> anesthetist_id, room_id |-> room_id]

\* What a schedule may hold for surgery s: no row, or a row with the input
\* times or with a later end, for any anesthetist and room
RowOptions(s) ==
    {<<>>} \cup
    {<<SolutionRow(s.surgery_id, s.start_time, e, k, r)>> :
        e \in {s.end_time, s.end_time + Grain}, k \in AnesthetistIds, r \in RoomIds}

\* A trailing row: none, one with an unknown surgery_id, or a second row for
\* the first surgery
ExtraRows(surg) ==
    {<<>>, <<SolutionRow(Len(surg) + 1, 0, Grain, "A1", "R1")>>}
    \cup (IF Len(surg) = 0 THEN {}
          ELSE {<<SolutionRow(surg[1].surgery_id, surg[1].start_time, surg[1].end_time,
                              "A2", "R2")>>})

RECURSIVE Flatten(_)
Flatten(parts) ==
    IF Len(parts) = 0 THEN <<>>
    ELSE Flatten(SubSeq(parts, 1, Len(parts) - 1)) \o parts[Len(parts)]

RowLists(surg) ==
    {Flatten(ch) \o ex :
        ch \in FnProduct([i \in 1..Len(surg) |-> RowOptions(surg[i])]),
        ex \in ExtraRows(surg)}

\* Arguments of _rename_anesthetists: a schedule of the surgeries, in input
\* order or reversed, as SolutionRow objects or as model_dump() dictionaries
RenameArgs(surg) ==
    {[kind |-> "list", rows |-> rows, row_type |-> t] :
        rows \in RowLists(surg) \cup {Reverse(r) : r \in RowLists(surg)},
        t \in {"SolutionRow", "dict"}}

\* Arguments of write_solution_csv: a schedule of the surgeries as rows of
\* dictionaries, in input order or reversed, its times in UTC, in UTC+1 or
\* without a timezone
ExportArgs(surg) ==
    {[kind |-> "list",
      rows |-> [i \in 1..Len(rows) |->
                   [rows[i] EXCEPT
                       !.start_time = DateTime(@ + (IF tz.aware THEN tz.utcoffset ELSE 0), tz),
                       !.end_time = DateTime(@ + (IF tz.aware THEN tz.utcoffset ELSE 0), tz)]]] :
        rows \in RowLists(surg) \cup {Reverse(r) : r \in RowLists(surg)},
        tz \in {Aware(0), Aware(SecondsPerHour), Naive}}

Exceptions == OpmedErrors \cup {"KeyError", "TypeError", "AttributeError"}

\* The names Optimizer._status_name gives to the solver's status codes
StatusNames == {"OPTIMAL", "FEASIBLE", "INFEASIBLE", "MODEL_INVALID", "UNKNOWN"}

\* Results of a solve that found no solution, as run_pipeline receives them:
\* in Optimizer's shape (key "assignment"), or with an empty "assignments" list
NoSolutionResults ==
    {[SolveResult(status, None, [x |-> {}, y |-> {}]) EXCEPT !.assignments = av] :
        status \in StatusNames \ OkStatuses, av \in {NoAssignments, ListAssignments(<<>>)}}

InitHarness ==
    /\ IdleWriters
    /\ first_run = NoRun
    /\ load_ok = "ok"
    /\ input_rows = <<>>
    /\ aux = EmptyAux
    /\ sol = NoSolution
    /\ report = NoReport
    /\ solution_csv = NoCsv
    /\ files = {}
    /\ exit_code = NoExit
    /\ v_out = [exc |-> "idle", report |-> NoReport]
    /\ \/ /\ pc = "validator"
          /\ cfg \in ValidatorConfigSet
          /\ surgeries \in HarnessLists
          /\ v_rows \in {NoAssignments} \cup {ListAssignments(rows) : rows \in RowLists(surgeries)}
          /\ valid = FALSE
          /\ exc = NoRaise
       \/ /\ pc = "validate"
          /\ cfg = DefaultConfig
          /\ surgeries \in HarnessLists \ {<<>>}
          /\ v_rows = NoAssignments
          /\ valid = FALSE
          /\ exc = NoRaise
       \/ /\ pc = "rename_call"
          /\ cfg = DefaultConfig
          /\ surgeries \in HarnessLists
          /\ v_rows \in RenameArgs(surgeries)
          /\ valid = FALSE
          /\ exc = NoRaise
       \/ /\ pc = "export_call"
          /\ cfg = DefaultConfig
          /\ surgeries \in HarnessLists
          /\ v_rows \in ExportArgs(surgeries)
          /\ valid = FALSE
          /\ exc = NoRaise
       \/ /\ pc \in {"returned", "raised"}
          /\ cfg = DefaultConfig
          /\ surgeries = <<>>
          /\ v_rows = NoAssignments
          /\ valid \in (IF pc = "returned" THEN BOOLEAN ELSE {FALSE})
          /\ exc \in (IF pc = "returned" THEN {NoRaise} ELSE Exceptions)
    /\ res \in (IF pc = "validate" THEN NoSolutionResults ELSE {NoResult})

CallValidate ==
    /\ pc = "validator"
    /\ v_out' = ValidateAssignments(v_rows, surgeries, cfg)
    /\ pc' = "validated"
    /\ UNCHANGED <<fs, runs, first_run, cfg, input_rows, surgeries, load_ok, aux, sol, res, valid, report, solution_csv,
                   files, exc, exit_code, v_rows>>

CallRename ==
    /\ pc = "rename_call"
    /\ v_out' = RenameAnesthetists(v_rows)
    /\ pc' = "renamed"
    /\ UNCHANGED <<fs, runs, first_run, cfg, input_rows, surgeries, load_ok, aux, sol, res,
                   valid, report, solution_csv, files, exc, exit_code, v_rows>>

\* v._check_surgery_duration_limit() on Validator(assignments, surgeries, cfg)
CallDurationCheck ==
    /\ pc = "validator"
    /\ v_rows # NoAssignments
    /\ v_out' = [exc |-> NoRaise, report |-> CheckSurgeryDurationLimit(surgeries, cfg)]
    /\ pc' = "duration_checked"
    /\ UNCHANGED <<fs, runs, first_run, cfg, input_rows, surgeries, load_ok, aux, sol, res,
                   valid, report, solution_csv, files, exc, exit_code, v_rows>>

\* write_solution_csv(assignments, out_path) on drawn rows
CallWriteSolutionCsv ==
    /\ pc = "export_call"
    /\ v_out' = WriteSolutionCsvRows(v_rows.rows)
    /\ pc' = "exported"
    /\ UNCHANGED <<fs, runs, first_run, cfg, input_rows, surgeries, load_ok, aux, sol, res,
                   valid, report, solution_csv, files, exc, exit_code, v_rows>>

NextHarness ==
    CallValidate \/ CallDurationCheck \/ CallRename \/ CallWriteSolutionCsv \/ Validate \/ Rename \/ Plot \/ CollectAndExport \/ Main

HarnessSpec == InitHarness /\ [][NextHarness]_vars

-----------------------------------------------------------------------------
(* The artifact writers, one file operation per step.  fs.names maps an     *)
(* existing path <<directory, name>> to its inode and fs.inodes maps an     *)
(* inode to its content, a sequence of chunks.  Two runs write the same     *)
(* directories concurrently; a reader may open any path in any state.       *)

MaxChunks == 2      \* a payload reaches the file in this many writes

Runs == {"first", "second"}

\* The call sites that write an artifact, with the way each opens its file
OptimizerSolverLog ==
    [site |-> "Optimizer._write_solver_log", dir |-> "cfg.output_dir",
     name |-> "solver.log", how |-> "open_w"]
OptimizerMetrics ==
    [site |-> "Optimizer._write_metrics", dir |-> "cfg.output_dir",
     name |-> "metrics.json", how |-> "open_w"]
SolverStatusWriteText ==
    [site |-> "run_pipeline", dir |-> "output_dir",
     name |-> "validation_report.json", how |-> "open_w"]
SaveReport ==
    [site |-> "Validator.save_report", dir |-> "output_dir",
     name |-> "validation_report.json", how |-> "with_suffix_tmp"]
WriteMetrics ==
    [site |-> "write_metrics", dir |-> "output_dir",
     name |-> "metrics.json", how |-> "mkstemp"]
WriteSolverLog ==
    [site |-> "write_solver_log", dir |-> "output_dir",
     name |-> "solver.log", how |-> "mkstemp"]
WriteSolutionCsv ==
    [site |-> "write_solution_csv", dir |-> "output_dir",
     name |-> "solution.csv", how |-> "mkstemp"]

\* The writes of one run, in order: run_pipeline when the solver has no
\* solution (it stops in collect_metrics), run_pipeline when it has one (it
\* stops in validate_assignments), and each remaining writer called alone
Programs ==
    {<<OptimizerSolverLog, OptimizerMetrics, SolverStatusWriteText>>,
     <<OptimizerSolverLog, OptimizerMetrics>>,
     <<SaveReport>>, <<WriteMetrics>>, <<WriteSolverLog>>, <<WriteSolutionCsv>>}

NoFd == <<>>

RunStart(prog) ==
    [prog |-> prog, ip |-> 1, step |-> "call", fd |-> NoFd, pos |-> 0, tmp |-> <<>>,
     exc |-> NoRaise]

\* the call of run p that is in progress
Site(p) == runs[p].prog[runs[p].ip]

FinalPath(site) == <<site.dir, site.name>>

\* final_path.with_suffix(".tmp")
WithSuffixTmp(site) == <<site.dir, "validation_report.tmp">>

\* tempfile.mkstemp: a name no other call has
MkStempName(site, p, ip) == <<site.dir, site.name, "tmp", p, ip>>

Chunk(p, ip, part) == [by |-> p, call |-> ip, part |-> part]
Hole == [by |-> "nobody", call |-> 0, part |-> 0]

Extend(f, k, v) == [e \in DOMAIN f \cup {k} |-> IF e = k THEN v ELSE f[e]]
Remove(f, k) == [e \in DOMAIN f \ {k} |-> f[e]]

\* open(path, "w"): the file is created, or its content is truncated
OpenW(path, p) ==
    IF path \in DOMAIN fs.names
    THEN [names |-> fs.names, inodes |-> [fs.inodes EXCEPT ![fs.names[path]] = <<>>]]
    ELSE [names |-> Extend(fs.names, path, <<p, runs[p].ip>>),
          inodes |-> Extend(fs.inodes, <<p, runs[p].ip>>, <<>>)]

\* write(fd, chunk) at the descriptor's own offset
WriteAt(content, pos, chunk) ==
    [i \in 1..Max2(Len(content), pos + 1) |->
        IF i = pos + 1 THEN chunk ELSE IF i <= Len(content) THEN content[i] ELSE Hole]

\* the next call of run p, or the end of its program
Return(p) ==
    runs' = [runs EXCEPT ![p] =
                [@ EXCEPT !.ip = @ + 1, !.fd = NoFd, !.pos = 0, !.tmp = <<>>,
                          !.step = IF runs[p].ip = Len(runs[p].prog) THEN "done" ELSE "call"]]

\* path.open("w") and Path.write_text on the final path itself
OpenTarget(p) ==
    /\ runs[p].step = "call"
    /\ Site(p).how = "open_w"
    /\ fs' = OpenW(FinalPath(Site(p)), p)
    /\ runs' = [runs EXCEPT ![p] = [@ EXCEPT !.step = "write",
                                             !.fd = fs'.names[FinalPath(Site(p))]]]
    /\ UNCHANGED pipeline_vars

\* tempfile.mkstemp in the destination directory
MkStemp(p) ==
    /\ runs[p].step = "call"
    /\ Site(p).how = "mkstemp"
    /\ LET tmp == MkStempName(Site(p), p, runs[p].ip)
       IN /\ fs' = [names |-> Extend(fs.names, tmp, <<p, runs[p].ip>>),
                    inodes |-> Extend(fs.inodes, <<p, runs[p].ip>>, <<>>)]
          /\ runs' = [runs EXCEPT ![p] = [@ EXCEPT !.step = "write", !.tmp = tmp,
                                                   !.fd = <<p, runs[p].ip>>]]
    /\ UNCHANGED pipeline_vars

\* Validator.save_report: open(final_path.with_suffix(".tmp"), "w")
OpenTmp(p) ==
    /\ runs[p].step = "call"
    /\ Site(p).how = "with_suffix_tmp"
    /\ LET tmp == WithSuffixTmp(Site(p))
       IN /\ fs' = OpenW(tmp, p)
          /\ runs' = [runs EXCEPT ![p] = [@ EXCEPT !.step = "write", !.tmp = tmp,
                                                   !.fd = fs'.names[tmp]]]
    /\ UNCHANGED pipeline_vars

\* one write reaches the open file
WriteChunk(p) ==
    /\ runs[p].step = "write"
    /\ fs' = [fs EXCEPT !.inodes[runs[p].fd] =
                 WriteAt(@, runs[p].pos, Chunk(p, runs[p].ip, runs[p].pos + 1))]
    /\ runs' = [runs EXCEPT ![p] =
                   [@ EXCEPT !.pos = @ + 1,
                             !.step = IF runs[p].pos + 1 = MaxChunks THEN "close" ELSE "write"]]
    /\ UNCHANGED pipeline_vars

\* the end of the with-block of a file opened on its final path
CloseFile(p) ==
    /\ runs[p].step = "close"
    /\ Site(p).how = "open_w"
    /\ Return(p)
    /\ UNCHANGED <<fs, pipeline_vars>>

\* os.replace(tmp, path) / tmp_path.replace(final_path); a missing source
\* raises, which the writer wraps in its own error
Replace(p) ==
    /\ runs[p].step = "close"
    /\ Site(p).how # "open_w"
    /\ IF runs[p].tmp \in DOMAIN fs.names
       THEN /\ fs' = [fs EXCEPT !.names =
                         Remove(Extend(@, FinalPath(Site(p)), fs.names[runs[p].tmp]),
                                runs[p].tmp)]
            /\ Return(p)
       ELSE /\ runs' = [runs EXCEPT ![p] =
                           [@ EXCEPT !.step = "raised",
                                     !.exc = IF Site(p).how = "with_suffix_tmp"
                                             THEN "ValidationError" ELSE "DataError"]]
            /\ UNCHANGED fs
    /\ UNCHANGED pipeline_vars

\* the except-branch that leaves the temporary file where it is
AfterFailureKeepTmp(p) == fs

\* The file system after the except-branch of the writer of run p:
\* write_solution_csv and _atomic_write_text call os.remove(tmp),
\* Validator.save_report removes nothing
AfterFailure(p) ==
    IF Site(p).how = "mkstemp"
    THEN [names |-> Remove(fs.names, runs[p].tmp), inodes |-> fs.inodes]
    ELSE fs

\* An OSError inside the try-block of a writer that uses a temporary file: in
\* os.fdopen/open or a write (step "write"), or in os.replace (step "close").
\* write_solution_csv re-raises it, _atomic_write_text raises DataError and
\* save_report raises ValidationError.
FailIO(p) ==
    /\ runs[p].step \in {"write", "close"}
    /\ Site(p).how # "open_w"
    /\ fs' = AfterFailure(p)
    /\ runs' = [runs EXCEPT ![p] =
                   [@ EXCEPT !.step = "raised",
                             !.exc = CASE Site(p) = WriteSolutionCsv -> "OSError"
                                       [] Site(p).how = "mkstemp" -> "DataError"
                                       [] OTHER -> "ValidationError"]]
    /\ UNCHANGED pipeline_vars

InitWriters ==
    /\ load_ok = "ok"
    /\ cfg = DefaultConfig
    /\ input_rows = <<>>
    /\ surgeries = <<>>
    /\ pc = "writers"
    /\ aux = EmptyAux
    /\ sol = NoSolution
    /\ res = NoResult
    /\ valid = FALSE
    /\ report = NoReport
    /\ solution_csv = NoCsv
    /\ files = {}
    /\ exc = NoRaise
    /\ exit_code = NoExit
    /\ IdleHarness
    /\ first_run = NoRun
    /\ fs = EmptyFs
    /\ runs \in [Runs -> {RunStart(prog) : prog \in Programs}]

NextWriters ==
    \E p \in Runs :
        \/ OpenTarget(p) \/ MkStemp(p) \/ OpenTmp(p) \/ WriteChunk(p) \/ CloseFile(p)
        \/ Replace(p) \/ FailIO(p)

WriteSpec == InitWriters /\ [][NextWriters]_vars

-----------------------------------------------------------------------------
(* Properties of the assignments that satisfy the built model               *)

\* The solver holds a satisfying assignment of the model built for surgeries
HasSolution == sol # NoSolution

Assigned(k) == {s \in Surg(aux) : sol.x[s][k] = 1}
InRoom(r) == {s \in Surg(aux) : sol.y[s][r] = 1}

TicksOverlap(s1, s2) ==
    /\ aux.start_ticks[s1] < aux.end_ticks[s2]
    /\ aux.start_ticks[s2] < aux.end_ticks[s1]

\* C1: in every satisfying assignment of the model built for a non-empty
\* surgery list, each surgery has exactly one slot a with x[s,a] = 1 and
\* exactly one room r with y[s,r] = 1.
C1_ExactlyOneSlotAndRoom ==
    HasSolution =>
        \A s \in Surg(aux) :
            /\ Cardinality({k \in Slots(aux) : sol.x[s][k] = 1}) = 1
            /\ Cardinality({r \in Rooms(cfg) : sol.y[s][r] = 1}) = 1

C1_Witness ==
    /\ HasSolution
    /\ aux.n = 2
    /\ cfg.rooms_max = 2
    /\ sol.x[1][2] = 1 /\ sol.y[2][2] = 1

\* C2: in every satisfying assignment, two distinct surgeries placed in the
\* same room have non-overlapping tick intervals [start_ticks, end_ticks).
C2_RoomIntervalsDisjoint ==
    HasSolution =>
        \A r \in Rooms(cfg) : \A s1, s2 \in InRoom(r) :
            s1 # s2 => ~TicksOverlap(s1, s2)

C2_Witness ==
    /\ HasSolution
    /\ cfg.rooms_max = 2
    /\ \E r \in Rooms(cfg) : Cardinality(InRoom(r)) = 2

\* C3: in every satisfying assignment, two distinct surgeries given to the
\* same anesthesiologist slot have non-overlapping tick intervals.
C3_AnesthIntervalsDisjoint ==
    HasSolution =>
        \A k \in Slots(aux) : \A s1, s2 \in Assigned(k) :
            s1 # s2 => ~TicksOverlap(s1, s2)

C3_Witness ==
    /\ HasSolution
    /\ \E k \in Slots(aux) : Cardinality(Assigned(k)) = 2

\* C4: in every satisfying assignment, for every dangerous pair (s1, s2)
\* (end_ticks[s1] <= start_ticks[s2] < end_ticks[s1] + buffer_ticks), if one
\* slot holds both surgeries then one room holds both.
C4_DangerousPairSharesRoom ==
    HasSolution =>
        \A p \in DangerousPairs(aux) :
            (\E k \in Slots(aux) : sol.x[p[1]][k] = 1 /\ sol.x[p[2]][k] = 1)
                => (\E r \in Rooms(cfg) : sol.y[p[1]][r] = 1 /\ sol.y[p[2]][r] = 1)

\* C5: in every satisfying assignment, every slot with at least one surgery
\* has (latest end tick) - (earliest start tick) <= shift_max in ticks.
C5_ShiftSpanWithinMax ==
    HasSolution =>
        \A k \in Slots(aux) :
            Assigned(k) # {} =>
                SetMax({aux.end_ticks[s] : s \in Assigned(k)})
                    - SetMin({aux.start_ticks[s] : s \in Assigned(k)})
                  <= HoursToTicks(cfg, cfg.shift_max)

\* a slot that holds two surgeries whose span is exactly shift_max
C5_Witness ==
    /\ HasSolution
    /\ \E k \in Slots(aux) :
          /\ Cardinality(Assigned(k)) = 2
          /\ SetMax({aux.end_ticks[s] : s \in Assigned(k)})
                 - SetMin({aux.start_ticks[s] : s \in Assigned(k)})
               = HoursToTicks(cfg, cfg.shift_max)

-----------------------------------------------------------------------------
(* Properties of the pipeline and of the Validator                          *)

\* run_pipeline is past its validation step (5)
PastValidation == pc \notin {"load", "build", "solve", "validate"}

\* C6: whenever the solver returns OPTIMAL or FEASIBLE, validating the
\* schedule extracted from that solution against the same surgeries and
\* config yields a report with valid = true.
C6_RoundTripValid ==
    (PastValidation /\ res.status \in OkStatuses) => (report # NoReport /\ report.valid)

\* The validator call of the harness has returned a report
Reported == pc = "validated" /\ v_out.exc = NoRaise

\* C7: the Validator report has valid = true exactly when DataIntegrity,
\* RoomOverlap, NoOverlap and DurationLimits all pass; a failed Buffer,
\* ShiftLimits or Utilization never makes valid false.
C7_ValidIffCriticalChecksPass ==
    Reported =>
        (v_out.report.valid <=>
            /\ v_out.report.checks["DataIntegrity"]
            /\ v_out.report.checks["RoomOverlap"]
            /\ v_out.report.checks["NoOverlap"]
            /\ v_out.report.checks["DurationLimits"])

C7_Witness ==
    /\ Reported
    /\ v_out.report.valid
    /\ ~v_out.report.checks["Buffer"]
    /\ ~v_out.report.checks["ShiftLimits"]
    /\ ~v_out.report.checks["Utilization"]

\* C8: main returns 0 only when run_pipeline returned a valid result, 1 when
\* it returned valid = false or raised an OpmedError, and 2 when any other
\* exception escaped.
C8_ExitCodes ==
    pc = "exited" =>
        /\ exit_code = 0 => (exc = NoRaise /\ valid)
        /\ (exc = NoRaise /\ ~valid) => exit_code = 1
        /\ exc \in OpmedErrors => exit_code = 1
        /\ (exc # NoRaise /\ exc \notin OpmedErrors) => exit_code = 2

C8_Witness ==
    /\ pc = "exited"
    /\ exc = "ValidationError"
    /\ exit_code = 1

C10_EmptyScheduleExported ==
    (pc = "exited" /\ res.status \in {"UNKNOWN", "INFEASIBLE"}) =>
        solution_csv = [written |-> TRUE, rows |-> <<>>]

\* C11: for an input with zero surgeries the run does not fail: it exports an
\* empty schedule, and the validation result is valid = true (exit code 0).
C11_EmptyInputValid ==
    (pc = "exited" /\ load_ok = "ok" /\ input_rows = <<>>) =>
        /\ exc = NoRaise
        /\ valid
        /\ exit_code = 0
        /\ solution_csv = [written |-> TRUE, rows |-> <<>>]

\* Some row of the file has one of the four issues of the loader
HasRowIssue(rows) ==
    \E i \in 1..Len(rows) :
        \/ rows[i].surgery_id = EmptyId
        \/ ~rows[i].start_time.parsed
        \/ ~rows[i].end_time.parsed
        \/ (rows[i].start_time.parsed /\ rows[i].end_time.parsed
            /\ rows[i].start_time.t >= rows[i].end_time.t)
        \/ \E j \in 1..i - 1 : rows[j].surgery_id = rows[i].surgery_id

\* C12: if any row of the input CSV has an issue (missing id, unparsable
\* instant, start >= end, duplicate id), the load fails with an empty surgery
\* list even when other rows are valid, and the run stops with a DataError
\* before any model is built or solved.
C12_AnyIssueHaltsBeforeBuild ==
    (pc # "load" /\ load_ok # "config_error" /\ HasRowIssue(input_rows)) =>
        /\ load_ok = "load_failed"
        /\ surgeries = <<>>
        /\ pc \in {"raised", "exited"}
        /\ exc = "DataError"
        /\ aux = EmptyAux /\ sol = NoSolution /\ res = NoResult

\* a file of two rows, the first of which loads, has stopped the run
C12_Witness ==
    /\ pc = "exited"
    /\ load_ok = "load_failed"
    /\ Len(input_rows) = 2
    /\ RowIssue(input_rows[1], {}) = NoIssue
    /\ exit_code = 1

\* The content of a file is one whole payload of one call
Complete(content) ==
    /\ Len(content) = MaxChunks
    /\ \E p \in Runs : \E prog \in Programs : \E ip \in 1..Len(prog) :
           \A i \in 1..MaxChunks : content[i] = Chunk(p, ip, i)

ArtifactNames == {"solution.csv", "metrics.json", "solver.log", "validation_report.json"}

\* C13: every output artifact (solution.csv, metrics.json, solver.log,
\* validation_report.json) reaches its path only by an atomic rename of a
\* fully written temporary file: whoever opens an artifact that exists, also
\* while a second run writes the same directory, reads a whole payload.
C13_NoTornArtifact ==
    \A path \in DOMAIN fs.names :
        path[2] \in ArtifactNames /\ Len(path) = 2 => Complete(fs.inodes[fs.names[path]])

\* The second of two runs on the same loadable, non-empty input has ended
SecondRunEnded ==
    pc = "exited" /\ first_run # NoRun /\ load_ok = "ok" /\ surgeries # <<>>

\* C14: two runs of the pipeline on identical inputs, with num_workers = 1
\* and a fixed random_seed, both produce solution.csv, with the same rows,
\* and the same status and objective in metrics.json.
C14_TwoRunsSameArtifacts ==
    SecondRunEnded =>
        /\ first_run.solution_csv # NoCsv
        /\ solution_csv = first_run.solution_csv
        /\ res.status = first_run.res.status
        /\ res.objective = first_run.res.objective

\* C15: the rename step returns the rows sorted by start_time ascending, all
\* rows of one original anesthesiologist carry one label, and the k-th
\* distinct anesthesiologist in start order is labelled "A" with k zero-padded
\* to three digits.
C15_RenameSortsAndLabels ==
    pc = "renamed" =>
        /\ v_out.exc = NoRaise
        /\ Len(v_out.rows) = Len(v_rows.rows)
        /\ \A i \in 1..Len(v_out.rows) - 1 :
               v_out.rows[i].start_time <= v_out.rows[i + 1].start_time
        /\ \A i \in 1..Len(v_out.rows) :
               LET earlier == {SortedByStart(v_rows.rows)[j].anesthetist_id : j \in 1..i - 1}
                   mine == SortedByStart(v_rows.rows)[i].anesthetist_id
               IN mine \notin earlier =>
                      v_out.rows[i].anesthetist_id
                          = [prefix |-> "A",
                             digits |-> <<0, 0, Cardinality(earlier) + 1>>]
        /\ \A i, j \in 1..Len(v_out.rows) :
               (SortedByStart(v_rows.rows)[i].anesthetist_id
                    = SortedByStart(v_rows.rows)[j].anesthetist_id)
                 <=> (v_out.rows[i].anesthetist_id = v_out.rows[j].anesthetist_id)

\* C16: when the solver reports MODEL_INVALID the run is fatal: run_pipeline
\* raises SolveError and writes no valid = false report, unlike INFEASIBLE or
\* UNKNOWN, which it reports and survives.
C16_ModelInvalidIsFatal ==
    (res.status = "MODEL_INVALID" /\ pc \in {"returned", "raised", "exited"}) =>
        /\ exc = "SolveError"
        /\ report = NoReport

\* Some input surgery lasts longer than cfg.shift_max hours
SomeSurgeryTooLong ==
    \E i \in 1..Len(surgeries) :
        surgeries[i].end_time - surgeries[i].start_time > cfg.shift_max

\* C17: the DurationLimits check fails exactly when
\* enforce_surgery_duration_limit is true and some input surgery lasts longer
\* than shift_max; it records an error exactly when it fails, so with
\* enforcement disabled it passes for every input and records no error.  A
\* report of run_all_checks shows the failure whenever the flag is set and a
\* surgery is too long.
C17_DurationLimitsCheck ==
    /\ pc = "duration_checked" =>
          /\ ~v_out.report.checks["DurationLimits"]
                 <=> (cfg.enforce_surgery_duration_limit /\ SomeSurgeryTooLong)
          /\ v_out.report.errors = <<>> <=> v_out.report.checks["DurationLimits"]
          /\ ~cfg.enforce_surgery_duration_limit =>
                 (v_out.report.checks["DurationLimits"] /\ v_out.report.errors = <<>>)
    /\ (Reported /\ cfg.enforce_surgery_duration_limit /\ SomeSurgeryTooLong) =>
          ~v_out.report.checks["DurationLimits"]

\* enforcement is enabled, a surgery is longer than shift_max: the check called
\* on its own fails and records an error
C17_Witness ==
    /\ pc = "duration_checked"
    /\ cfg.enforce_surgery_duration_limit
    /\ SomeSurgeryTooLong
    /\ ~v_out.report.checks["DurationLimits"]
    /\ Len(v_out.report.errors) > 0

\* enforcement is disabled, a surgery is longer than shift_max, the check passes
C17_WitnessDisabled ==
    /\ pc = "duration_checked"
    /\ ~cfg.enforce_surgery_duration_limit
    /\ SomeSurgeryTooLong
    /\ v_out.report.checks["DurationLimits"]
    /\ v_out.report.errors = <<>>

\* the same failure in a report of run_all_checks whose DataIntegrity passed
C17_WitnessReport ==
    /\ Reported
    /\ cfg.enforce_surgery_duration_limit
    /\ SomeSurgeryTooLong
    /\ v_out.report.checks["DataIntegrity"]
    /\ ~v_out.report.checks["DurationLimits"]

\* Some row of the validated schedule names an input surgery
SomeAssignedIdMatches ==
    \E i \in 1..Len(v_rows.rows) : \E j \in 1..Len(surgeries) :
        v_rows.rows[i].surgery_id = surgeries[j].surgery_id

\* C18: the Validator raises ValidationError, and returns no report, when the
\* assignment list is empty or no assigned surgery_id matches an input
\* surgery_id; a list with a matching id gets a report instead.
C18_EmptyOrUnmatchedRaises ==
    (pc = "validated" /\ v_rows.kind = "list") =>
        IF Len(v_rows.rows) = 0 \/ ~SomeAssignedIdMatches
        THEN v_out.exc = "ValidationError" /\ v_out.report = NoReport
        ELSE v_out.exc = NoRaise /\ v_out.report # NoReport

\* rows for unknown surgeries only, with input surgeries present: raised
C18_Witness ==
    /\ pc = "validated"
    /\ v_rows.kind = "list"
    /\ Len(v_rows.rows) > 0
    /\ Len(surgeries) > 0
    /\ ~SomeAssignedIdMatches
    /\ v_out.exc = "ValidationError"

\* the empty assignment list: raised
C18_WitnessEmpty ==
    /\ pc = "validated"
    /\ v_rows.kind = "list"
    /\ Len(v_rows.rows) = 0
    /\ Len(surgeries) > 0
    /\ v_out.exc = "ValidationError"

\* The instant a datetime of an export row denotes, in seconds UTC
Instant(value) == value.local - value.tzinfo.utcoffset

C20_SameAnesthReifiedBothWays ==
    HasSolution =>
        \A p \in DangerousPairs(aux) : \A k \in Slots(aux) :
            /\ sol.sameA[<<p, k>>] = 1 <=> (sol.x[p[1]][k] = 1 /\ sol.x[p[2]][k] = 1)
            /\ (sol.x[p[1]][k] = 1 /\ sol.x[p[2]][k] = 1) => sol.sameR[p] = 1

\* C21: in every satisfying assignment, for every slot k, active[k] = 1
\* exactly when some surgery s has x[s, k] = 1.
C21_ActiveIffAssigned ==
    HasSolution =>
        \A k \in Slots(aux) : sol.slot[k].active = 1 <=> Assigned(k) # {}

\* one slot holds both surgeries and is active, the other is inactive
C21_Witness ==
    /\ HasSolution
    /\ aux.n = 2
    /\ \E k, j \in Slots(aux) :
          /\ Cardinality(Assigned(k)) = 2 /\ sol.slot[k].active = 1
          /\ Assigned(j) = {} /\ sol.slot[j].active = 0

\* C22: in every satisfying assignment, every active slot k has t_min[k] the
\* least start tick and t_max[k] the greatest end tick of exactly the
\* surgeries assigned to k; the others never lower t_min or raise t_max.
C22_SpanOfAssignedOnly ==
    HasSolution =>
        \A k \in Slots(aux) :
            sol.slot[k].active = 1 =>
                /\ Assigned(k) # {}
                /\ sol.slot[k].t_min = SetMin({aux.start_ticks[s] : s \in Assigned(k)})
                /\ sol.slot[k].t_max = SetMax({aux.end_ticks[s] : s \in Assigned(k)})

\* a slot holds the later surgery only: the earlier one does not lower t_min
C22_Witness ==
    /\ HasSolution
    /\ \E k \in Slots(aux) : \E s, u \in Surg(aux) :
          /\ Assigned(k) = {s}
          /\ aux.start_ticks[u] < aux.start_ticks[s]
          /\ sol.slot[k].t_min = aux.start_ticks[s]
          /\ sol.slot[k].t_min < aux.max_time_ticks

\* a slot holds the earlier surgery only: the later one does not raise t_max
C22_WitnessMax ==
    /\ HasSolution
    /\ \E k \in Slots(aux) : \E s, u \in Surg(aux) :
          /\ Assigned(k) = {s}
          /\ aux.end_ticks[u] > aux.end_ticks[s]
          /\ sol.slot[k].t_max = aux.end_ticks[s]

\* C23: in every satisfying assignment, every inactive slot k (no surgery
\* assigned) has t_min[k] = 0, t_max[k] = 0 and cost2[k] = 0, and adds
\* nothing to the objective.
C23_InactiveSlotIsZero ==
    HasSolution =>
        \A k \in Slots(aux) :
            (Assigned(k) = {} \/ sol.slot[k].active = 0) =>
                /\ sol.slot[k].t_min = 0
                /\ sol.slot[k].t_max = 0
                /\ sol.slot[k].cost2 = 0
                /\ sol.slot[k].penalty = 0

\* an inactive slot beside an active one that holds both surgeries
C23_Witness ==
    /\ HasSolution
    /\ \E k, j \in Slots(aux) :
          /\ Assigned(k) = {}
          /\ sol.slot[k].active = 0
          /\ sol.slot[k].t_max = 0
          /\ sol.slot[k].cost2 = 0
          /\ Cardinality(Assigned(j)) = 2
          /\ sol.slot[j].t_max > 0
          /\ sol.slot[j].cost2 > 0

MaxOverlap(surg) ==
    SetMax({0} \cup
           {Cardinality({j \in 1..Len(surg) :
                            surg[j].start_time <= surg[i].start_time
                                /\ surg[i].start_time < surg[j].end_time}) :
               i \in 1..Len(surg)})

\* Every input instant is a whole number of ticks after midnight
TickAligned ==
    \A i \in 1..Len(surgeries) :
        /\ (surgeries[i].start_time - Midnight(surgeries[i].start_time)) % cfg.time_unit = 0
        /\ (surgeries[i].end_time - Midnight(surgeries[i].end_time)) % cfg.time_unit = 0

\* C25: when every surgery lasts at most shift_max and at most rooms_max
\* surgeries overlap at any instant, the built model has a satisfying
\* assignment (the solver cannot report INFEASIBLE), however the horizon
\* compares with shift_min and shift_overtime in ticks.
C25_FeasibleWhateverHorizon ==
    (/\ pc = "validate"
     /\ TickAligned
     /\ \A i \in 1..Len(surgeries) :
            surgeries[i].end_time - surgeries[i].start_time <= cfg.shift_max
     /\ MaxOverlap(surgeries) <= cfg.rooms_max)
        => res.status # "INFEASIBLE"

\* Two input surgeries overlap in real time (what the Validator compares)
RealOverlap(s1, s2) ==
    /\ surgeries[s1].start_time < surgeries[s2].end_time
    /\ surgeries[s2].start_time < surgeries[s1].end_time

\* C26: conversion to ticks preserves overlap: two input surgeries that
\* overlap in real time have overlapping tick intervals, so no satisfying
\* assignment gives them one room or one anesthesiologist slot.
C26_TicksPreserveOverlap ==
    HasSolution =>
        \A s1, s2 \in Surg(aux) :
            (s1 # s2 /\ RealOverlap(s1, s2)) =>
                /\ TicksOverlap(s1, s2)
                /\ \A r \in Rooms(cfg) : ~(sol.y[s1][r] = 1 /\ sol.y[s2][r] = 1)
                /\ \A k \in Slots(aux) : ~(sol.x[s1][k] = 1 /\ sol.x[s2][k] = 1)

\* C27: after a solve with status OPTIMAL or FEASIBLE, the schedule that
\* run_pipeline hands to validation and export (res["assignments"]) holds
\* exactly one row per input surgery, with the input's surgery_id, start_time
\* and end_time and the slot and room the solver chose for it.
C27_ScheduleRowPerSurgery ==
    res.status \in OkStatuses =>
        /\ res.assignments.kind = "list"
        /\ Len(res.assignments.rows) = Len(surgeries)
        /\ \A i \in 1..Len(surgeries) :
               \E j \in 1..Len(res.assignments.rows) :
                   LET row == res.assignments.rows[j]
                   IN /\ row.surgery_id = surgeries[i].surgery_id
                      /\ row.start_time = surgeries[i].start_time
                      /\ row.end_time = surgeries[i].end_time
                      /\ \E k \in Slots(aux) : sol.x[i][k] = 1 /\ row.anesthetist_id = k
                      /\ \E r \in Rooms(cfg) : sol.y[i][r] = 1 /\ row.room_id = r

\* The schedule rows of slot k in the assignment the solver holds
SlotRows(k) ==
    LET mine == SelectSeq(surgeries, LAMBDA s : sol.x[s.surgery_id][k] = 1)
    IN [i \in 1..Len(mine) |->
           SolutionRow(mine[i].surgery_id, mine[i].start_time, mine[i].end_time, k,
                       CHOOSE r \in Rooms(cfg) : sol.y[mine[i].surgery_id][r] = 1)]

\* C28: for tick-aligned times and activation_penalty = 0, the cost the
\* Validator computes for an anesthesiologist's shift, in hours, equals
\* cost2 / (2 * ticks_per_hour) of that slot in the same assignment, for every
\* allowed configuration, whatever overtime_multiplier >= 1 it sets.
\* (Both sides are multiplied by 2 * ticks_per_hour * 3600 * overtime_den.)
C28_ValidatorCostIsModelCost ==
    (HasSolution /\ TickAligned /\ cfg.activation_penalty = 0) =>
        \A k \in Slots(aux) :
            sol.slot[k].active = 1 =>
                TotalCostScaled(SlotRows(k), cfg) * 2 * aux.ticks_per_hour
                    = sol.slot[k].cost2 * SecondsPerHour * cfg.overtime_den

\* The path and the file behind it are the same before and after the step
PathUntouched(path) ==
    /\ (path \in DOMAIN fs'.names) <=> (path \in DOMAIN fs.names)
    /\ path \in DOMAIN fs.names =>
          /\ fs'.names[path] = fs.names[path]
          /\ fs'.inodes[fs.names[path]] = fs.inodes[fs.names[path]]

C30_SolveOnceNoRetry ==
    [][/\ pc' = "solve" => pc \in {"build", "solve"}
       /\ (pc = "solve" /\ pc' # "solve") =>
              /\ pc' = "validate"
              /\ res'.status \in StatusNames
              /\ IF res'.status \in OkStatuses
                 THEN /\ sol' # NoSolution
                      /\ res'.assignment = ExtractAssignments(aux, cfg, sol')
                      /\ res'.objective = Objective(aux, cfg, sol')
                 ELSE /\ sol' = NoSolution
                      /\ res'.assignment = [x |-> {}, y |-> {}]
                      /\ res'.objective = None
       /\ (pc # "solve" /\ pc \notin {"exited"}) => (sol' = sol /\ res'.status = res.status
                                                     /\ res'.objective = res.objective)]_vars

\* the solver answered UNKNOWN on a model that has satisfying assignments:
\* the result is handed on, empty, with no second attempt
C30_Witness ==
    /\ pc = "validate"
    /\ res.status = "UNKNOWN"
    /\ res.objective = None
    /\ res.assignment = [x |-> {}, y |-> {}]
    /\ Solutions(aux, cfg) # {}

=============================================================================
